---- MODULE Spec2Model ----
(***************************************************************************)
(* Banking ledger API: TransactionService.submitTransaction and the        *)
(* controller that calls it, over the MySQL/InnoDB store described by      *)
(* migrations/001_initial_schema.sql.                                      *)
(*                                                                         *)
(* Four specifications share the steps of the service:                     *)
(*   Spec        calls submitTransaction directly with any                 *)
(*               CreateTransactionData;                                    *)
(*   SpecServer  receives HTTP requests, which reach the service through   *)
(*               the router, authenticateUser, validate and the            *)
(*               controllers, and also runs DatabaseConnection.transaction;*)
(*   SpecSerial  calls the service one call at a time, so that             *)
(*               getAccountBalance and getSummaryReport read a ledger of   *)
(*               several rows;                                             *)
(*   SpecDecimal submits amounts that are not whole cents.                 *)
(*                                                                         *)
(* Money is counted in cents (DECIMAL(15,2) values times 100), so every    *)
(* amount of Spec, SpecServer and SpecSerial is exactly representable in   *)
(* the store.                                                              *)
(*                                                                         *)
(* The store is modelled at statement granularity:                         *)
(*   - a plain SELECT is a non-locking consistent read of committed data;  *)
(*   - an UPDATE takes the exclusive lock of the row it matches, reads the *)
(*     latest committed value (plus the transaction's own writes), and     *)
(*     holds the lock until COMMIT or ROLLBACK;                            *)
(*   - CHECK and FOREIGN KEY constraints are verified by the statement     *)
(*     that writes, which raises an error when they fail;                  *)
(*   - COMMIT makes the transaction's writes visible at once.              *)
(* Shared locks taken by foreign-key checks are not modelled.              *)
(***************************************************************************)
EXTENDS Integers, FiniteSets, Sequences, TLC

\* ------------------------------------------------------------------ bounds
NumAccounts == 2
NumProcs == 2
MaxAmount == 2
MaxInitBalance == 2
MaxFaults == 1
NumUsers == 2
MaxBodyAmount == 1
MaxRows == 2
MaxThousandths == 15

Accounts == 1..NumAccounts
\* Values of an account reference: 0 is "absent" (undefined / NULL), and
\* NumAccounts + 1 is an id that names no row of accounts.
NoAccount == 0
AccountIds == 0..(NumAccounts + 1)
Procs == 1..NumProcs
Amounts == (-1)..MaxAmount
Types == {"deposit", "withdrawal", "transfer"}

NoReason == "NULL"
NegativeOrZero == "Negative or zero amount not allowed"
DestinationRequired == "Destination account required for deposit"
SourceRequired == "Source account required for withdrawal"
BothRequired == "Both source and destination accounts required for transfer"
InsufficientFunds == "Insufficient funds"

\* Errors the store (or the driver) raises.
NoError == "none"
Unreachable == "store unreachable"
ConnectionLost == "Connection lost: The server closed the connection."
CheckViolation == "Check constraint 'chk_balance_non_negative' is violated."
ForeignKeyViolation == "Cannot add or update a child row: a foreign key constraint fails"
Deadlock == "Deadlock found when trying to get lock; try restarting transaction"

VARIABLES
  balance,      \* accounts.balance, committed: [Accounts -> Int]
  ledger,       \* transactions, committed: a set of rows
  initial,      \* the balances at provisioning (never changes)
  lock,         \* exclusive row lock of each account: its holder, or 0
  nextId,       \* source of fresh transaction identifiers (uuidv4)
  pc,           \* each request's position
  data,         \* each request's CreateTransactionData
  transactionId,\* local: transactionId
  status,       \* local: status
  failureReason,\* local: failureReason
  seen,         \* the balance checkSufficientBalance read, or -1
  writes,       \* uncommitted balance changes of each open transaction
  inserted,     \* uncommitted ledger rows of each open transaction
  committed,    \* whether the request's transaction was committed
  applied,      \* the change of each committed balance the request's commit made
  error,        \* the error raised to the request, if any
  outcome,      \* "none" | "returned" | "thrown": how submitTransaction ended
  httpStatus,   \* the status code of the response, 0 before it is sent
  faults,       \* how many times the store has been made to fail
  route,        \* the route of the request, "none" for a direct call
  secretKey,    \* req.headers["x-secret-key"]
  user,         \* req.user.id once authenticateUser attached it, or 0
  body,         \* req.body of a transaction request, once it is read
  paramsId,     \* req.params.accountId of a balance request, once it is read
  visited,      \* the stages that have run for the request
  sent,         \* the message of the error response, "" when there is none
  acquired,     \* how many pooled connections the request has acquired
  released,     \* how many it has released
  result,       \* the balance getAccountBalance returned to the request, or -1
  report,       \* the SummaryReport getSummaryReport built for the request
  readAt,       \* how many ledger rows were committed when the balance was read
  submitted     \* the amount of a request in thousandths, when it is not whole cents

storeVars == <<balance, ledger, initial, lock, nextId, faults>>
localVars == <<data, transactionId, status, failureReason, seen>>
txnVars == <<writes, inserted, committed, applied>>
endVars == <<error, outcome, httpStatus>>
reqVars == <<route, secretKey, user, body, paramsId>>
poolVars == <<acquired, released>>
queryVars == <<result, report, readAt>>
vars == <<storeVars, pc, localVars, txnVars, endVars, reqVars, visited, sent, poolVars,
          queryVars, submitted>>

NoData == [type |-> "none", amount |-> 0, source_account_id |-> 0, destination_account_id |-> 0]
NoWrites == [a \in Accounts |-> 0]

\* The data submitTransaction is called with. A reference the type does not
\* use is absent (the request schema forbids it); a reference the type uses
\* may be absent, name an account, or name no account.
CreateTransactionData ==
  { d \in [type : Types, amount : Amounts,
           source_account_id : AccountIds, destination_account_id : AccountIds] :
      /\ d.type = "deposit" => d.source_account_id = NoAccount
      /\ d.type = "withdrawal" => d.destination_account_id = NoAccount }

\* ------------------------------------------------------ pure parts of the code

\* if (data.amount <= 0)
AmountRejected(amount) == amount <= 0

\* !data.source_account_id : undefined (and 0) are falsy
Absent(id) == id = NoAccount

\* (mutant) the CHECK constraint is parsed and not enforced
chk_not_enforced(b) == TRUE

\* CONSTRAINT chk_balance_non_negative CHECK (balance >= 0)
chk_balance_non_negative(b) == b >= 0

\* parseFloat(accounts[0].balance) >= amount, false when no row matches
checkSufficientBalance(bal, accountId, amount) ==
  /\ accountId \in Accounts
  /\ bal[accountId] >= amount

\* (mutant) the debit is not written
DebitDropped(b, amount) == b

\* SET balance = balance - ?
Debited(b, amount) == b - amount

\* (mutant) the credit is written with the sign of a debit
CreditedWithMinus(b, amount) == b - amount

\* SET balance = balance + ?
Credited(b, amount) == b + amount

\* FOREIGN KEY (...) REFERENCES accounts(id): NULL passes, any other value must name a row
ForeignKeyHolds(id) == id = NoAccount \/ id \in Accounts

\* The reason the type switch sets before any store access, or NoReason.
MissingReference(d) ==
  CASE d.type = "deposit" /\ Absent(d.destination_account_id) -> DestinationRequired
    [] d.type = "withdrawal" /\ Absent(d.source_account_id) -> SourceRequired
    [] d.type = "transfer" /\ (Absent(d.source_account_id) \/ Absent(d.destination_account_id)) -> BothRequired
    [] OTHER -> NoReason

\* (mutant) the INSERT leaves the failure_reason column out
RowWithoutReason(id, d, st, reason) ==
  [transaction_id |-> id, type |-> d.type, amount |-> d.amount,
   source_account_id |-> d.source_account_id,
   destination_account_id |-> d.destination_account_id,
   status |-> st, failure_reason |-> NoReason]

\* The row of the INSERT: data.x || null, status, failureReason || null
TransactionRow(id, d, st, reason) ==
  [transaction_id |-> id, type |-> d.type, amount |-> d.amount,
   source_account_id |-> d.source_account_id,
   destination_account_id |-> d.destination_account_id,
   status |-> st, failure_reason |-> reason]

\* The account checks of TransactionController.submitTransaction before it
\* calls the service: a source reference, if present, names an account, and so
\* does the destination reference of a deposit. (Ownership is not part of this
\* predicate.)
ControllerAdmits(d) ==
  /\ ~Absent(d.source_account_id) => d.source_account_id \in Accounts
  /\ (~Absent(d.destination_account_id) /\ d.type = "deposit")
       => d.destination_account_id \in Accounts

\* errorHandler: the status code of an error with this message and statusCode
errorHandler(message, statusCode) ==
  CASE message = "Username already exists" -> 409
    [] message = "Account number already exists" -> 409
    [] message = "User does not exist" -> 404
    [] message = "Insufficient funds" -> 400
    [] message = "Source account not found" -> 404
    [] message = "Destination account not found" -> 404
    [] message = "Account not found" -> 404
    [] OTHER -> statusCode

\* ------------------------------------------------ the queries, pure parts

\* The largest element of a non-empty finite set of numbers.
Maximum(S) == CHOOSE x \in S : \A y \in S : y <= x

\* The rows of transactions the first query of getSummaryReport joins to
\* account a: LEFT JOIN transactions t ON (a.id = t.source_account_id OR
\* a.id = t.destination_account_id) AND t.status = 'completed'
JoinedTransactions(rows, a) ==
  { t \in rows : /\ a = t.source_account_id \/ a = t.destination_account_id
                 /\ t.status = "completed" }

\* (mutant) the query documented in DECISIONS.md: MAX(amount) ... WHERE
\* status = 'completed' GROUP BY destination_account_id
largest_of_destination(rows, a) ==
  LET joined == { t \in rows : a = t.destination_account_id /\ t.status = "completed" }
  IN IF joined = {} THEN 0 ELSE Maximum({ t.amount : t \in joined })

\* COALESCE(MAX(t.amount), 0) as largest_transaction, of the group of account a
largest_transaction(rows, a) ==
  IF JoinedTransactions(rows, a) = {} THEN 0
  ELSE Maximum({ t.amount : t \in JoinedTransactions(rows, a) })

\* The accounts of the report: one group per row of accounts (each account
\* has one user), with a.balance as current_balance.
AccountSummaries(bal, rows) ==
  [a \in Accounts |-> [current_balance |-> bal[a],
                       largest_transaction |-> largest_transaction(rows, a)]]

\* (mutant) the second query without its WHERE clause
UnfilteredRows(rows) == rows

\* FROM transactions WHERE status = 'failed' AND failure_reason IS NOT NULL
FailedRows(rows) ==
  { t \in rows : t.status = "failed" /\ t.failure_reason # NoReason }

\* SELECT failure_reason as reason, COUNT(*) as count ... GROUP BY
\* failure_reason: one entry per reason that occurs, with its count.
failed_transactions(rows) ==
  [r \in { t.failure_reason : t \in FailedRows(rows) } |->
     Cardinality({ t \in FailedRows(rows) : t.failure_reason = r })]

\* The report before any query has answered.
NoReport ==
  [accounts |-> [a \in Accounts |-> [current_balance |-> 0, largest_transaction |-> 0]],
   failed_transactions |-> [r \in {} |-> 0]]

\* (mutant) the balance is served from a copy made at provisioning
SelectProvisioned(bal, accountId) == initial[accountId]

\* SELECT balance FROM accounts WHERE id = ?, parseFloat of the row's balance
SelectBalance(bal, accountId) == bal[accountId]

\* ------------------------------------------ the request pipeline, pure parts

Users == 1..NumUsers
NoUser == 0

\* accounts.user_id: the seed gives every user one account, in order
user_id(a) == ((a - 1) % NumUsers) + 1

\* Values of the X-Secret-Key header: 0 is "no header", u \in Users is the
\* secret_key of user u, and NumUsers + 1 is a key no row of users holds.
SecretKeys == 0..(NumUsers + 1)

\* (mutant) the query has lost its WHERE clause: LIMIT 1 returns the first user
findAnyUser(key) == 1

\* UserService.findBySecretKey: the user's id, or NoUser for null
findBySecretKey(key) == IF key \in Users THEN key ELSE NoUser

\* AccountService.findById: the row's id, or NoAccount for null
findById(id) == IF id \in Accounts THEN id ELSE NoAccount

Routes == {"transactions", "balance", "reports"}
UnitCall == "DatabaseConnection.transaction"

\* Values of an account id in a request: as AccountIds, and -1 for a value
\* that is present and is not a positive integer.
BodyIds == (-1)..(NumAccounts + 1)
ParamIds == BodyIds \ {NoAccount}

NoBody == [type |-> "none", amount |-> 0, amountIsNumber |-> FALSE,
           source_account_id |-> 0, destination_account_id |-> 0]

\* The JSON bodies of POST /api/transactions. "refund" stands for any type
\* outside the enumeration; amountIsNumber is FALSE for an amount that
\* Joi.number() rejects (missing, or not a number).
Bodies ==
  { b \in [type : Types \cup {"refund"}, amount : 0..MaxBodyAmount, amountIsNumber : BOOLEAN,
           source_account_id : BodyIds, destination_account_id : BodyIds] :
      ~b.amountIsNumber => b.amount = 0 }

MissingKeyMessage == "X-Secret-Key header is missing"
InvalidKeyMessage == "Invalid secret key"
AuthUnavailable == "Authentication service unavailable"
ValidationError == "Validation error"
SourceNotFound == "Source account not found"
DestinationNotFound == "Destination account not found"
AccountNotFound == "Account not found"
UnauthorizedSource == "Unauthorized access to source account"
UnauthorizedDestination == "Unauthorized access to destination account"
UnauthorizedAccount == "Unauthorized access to account"
CallbackError == "callback error"

\* Joi.number().integer().positive()
PositiveInteger(id) == id > 0

\* (mutant) otherwise: Joi.optional() in place of Joi.forbidden()
RequiredOnly(cond, id) == IF cond THEN PositiveInteger(id) ELSE (Absent(id) \/ PositiveInteger(id))

\* (mutant) then: Joi.optional() in place of Joi.required()
OptionalWhen(cond, id) == IF cond THEN (Absent(id) \/ PositiveInteger(id)) ELSE Absent(id)

\* .when('type', { is: valid(...), then: Joi.required(), otherwise: Joi.forbidden() })
RequiredWhen(cond, id) == IF cond THEN PositiveInteger(id) ELSE Absent(id)

\* schemas.transaction.validate(req.body) reports no error
schemas_transaction(b) ==
  /\ b.type \in Types
  /\ b.amountIsNumber
  /\ RequiredWhen(b.type \in {"withdrawal", "transfer"}, b.source_account_id)
  /\ RequiredWhen(b.type \in {"deposit", "transfer"}, b.destination_account_id)

\* schemas.accountId.validate(req.params) reports no error
schemas_accountId(id) == PositiveInteger(id)

\* TransactionService.submitTransaction(req.body): the body as the service reads it
ServiceData(b) ==
  [type |-> b.type, amount |-> b.amount, source_account_id |-> b.source_account_id,
   destination_account_id |-> b.destination_account_id]

\* ----------------------------------------------------------------- Init

\* The state before any request: every request waits at pc `at`, and every
\* account was provisioned with a balance of `provisioned`.
Start(at, provisioned) ==
  /\ pc = [p \in Procs |-> at]
  /\ route = [p \in Procs |-> "none"]
  /\ secretKey = [p \in Procs |-> 0]
  /\ user = [p \in Procs |-> NoUser]
  /\ body = [p \in Procs |-> NoBody]
  /\ paramsId = [p \in Procs |-> 0]
  /\ visited = [p \in Procs |-> {}]
  /\ sent = [p \in Procs |-> ""]
  /\ acquired = [p \in Procs |-> 0]
  /\ released = [p \in Procs |-> 0]
  /\ balance \in [Accounts -> provisioned]
  /\ initial = balance
  /\ ledger = {}
  /\ lock = [a \in Accounts |-> 0]
  /\ nextId = 1
  /\ faults = 0
  /\ data = [p \in Procs |-> NoData]
  /\ transactionId = [p \in Procs |-> 0]
  /\ status = [p \in Procs |-> "completed"]
  /\ failureReason = [p \in Procs |-> NoReason]
  /\ seen = [p \in Procs |-> -1]
  /\ writes = [p \in Procs |-> NoWrites]
  /\ inserted = [p \in Procs |-> {}]
  /\ committed = [p \in Procs |-> FALSE]
  /\ applied = [p \in Procs |-> NoWrites]
  /\ error = [p \in Procs |-> NoError]
  /\ outcome = [p \in Procs |-> "none"]
  /\ httpStatus = [p \in Procs |-> 0]
  /\ result = [p \in Procs |-> -1]
  /\ report = [p \in Procs |-> NoReport]
  /\ readAt = [p \in Procs |-> 0]
  /\ submitted = [p \in Procs |-> 0]

Init == Start("idle", 1..MaxInitBalance)

\* Every account holds what the largest request amount exhausts.
InitServer == Start("listening", {MaxBodyAmount})

\* ------------------------------------------------------------ store steps

\* The store raises `e` to the statement request p is executing: control
\* passes to the catch block.
Raise(p, e) ==
  /\ error' = [error EXCEPT ![p] = e]
  /\ pc' = [pc EXCEPT ![p] = "catch"]

\* The response is sent: its status code and, for an error, its message.
Reply(p, code, msg) ==
  /\ httpStatus' = [httpStatus EXCEPT ![p] = code]
  /\ sent' = [sent EXCEPT ![p] = msg]
  /\ pc' = [pc EXCEPT ![p] = "done"]

\* A controller's catch block: throw new AppError(error.message, 400), which
\* errorHandler renders with that message.
Rethrown(p, e) == Reply(p, errorHandler(e, 400), e)

\* submitTransaction ends (`out` is "returned" or "thrown" with error `e`) and
\* TransactionController.submitTransaction answers: 201 with the transaction,
\* or AppError(error.message, 400) rendered by errorHandler.
Responds(p, out, e) ==
  /\ outcome' = [outcome EXCEPT ![p] = out]
  /\ IF out = "returned" THEN Reply(p, 201, "") ELSE Rethrown(p, e)

\* (mutant) release() is called on the success path only
ReleaseForgotten(p) == released' = [released EXCEPT ![p] = IF error[p] = NoError THEN @ + 1 ELSE @]

\* connection.release() in finally
Release(p) == released' = [released EXCEPT ![p] = @ + 1]

\* getConnection() resolved
Acquire(p) == acquired' = [acquired EXCEPT ![p] = @ + 1]

\* submitTransaction has been called for request p
Called(p) == visited' = [visited EXCEPT ![p] = @ \cup {"engine"}]

\* An injected failure of the store, at most MaxFaults times in a run.
Fault ==
  /\ faults < MaxFaults
  /\ faults' = faults + 1

\* The value of balance the open transaction of p sees in its own UPDATE.
Current(p, accountId) == balance[accountId] + writes[p][accountId]

\* UPDATE accounts SET balance = balance -/+ amount WHERE id = accountId, then
\* continue at `next`. No row matches an id that names no account. The
\* statement waits while another transaction holds the row's lock.
Update(p, accountId, debit, amount, next) ==
  IF accountId \notin Accounts
  THEN /\ pc' = [pc EXCEPT ![p] = next]
       /\ UNCHANGED <<lock, writes, error>>
  ELSE LET newBalance == IF debit THEN Debited(Current(p, accountId), amount)
                                  ELSE Credited(Current(p, accountId), amount)
       IN /\ lock[accountId] \in {0, p}
          /\ lock' = [lock EXCEPT ![accountId] = p]
          /\ IF chk_balance_non_negative(newBalance)
             THEN /\ writes' = [writes EXCEPT ![p][accountId] = newBalance - balance[accountId]]
                  /\ pc' = [pc EXCEPT ![p] = next]
                  /\ UNCHANGED error
             ELSE /\ Raise(p, CheckViolation)
                  /\ UNCHANGED writes

\* (mutant) transactions keeps one row for each pair of accounts: the INSERT
\* is a REPLACE on a unique key (source_account_id, destination_account_id)
CommitReplacing(p) ==
  /\ balance' = [a \in Accounts |-> balance[a] + writes[p][a]]
  /\ ledger' = { r \in ledger : \A n \in inserted[p] :
                   \/ r.source_account_id # n.source_account_id
                   \/ r.destination_account_id # n.destination_account_id }
                \cup inserted[p]
  /\ lock' = [a \in Accounts |-> IF lock[a] = p THEN 0 ELSE lock[a]]
  /\ writes' = [writes EXCEPT ![p] = NoWrites]
  /\ inserted' = [inserted EXCEPT ![p] = {}]

\* COMMIT: the transaction's writes become visible together, its locks are released.
CommitWrites(p) ==
  /\ balance' = [a \in Accounts |-> balance[a] + writes[p][a]]
  /\ ledger' = ledger \cup inserted[p]
  /\ lock' = [a \in Accounts |-> IF lock[a] = p THEN 0 ELSE lock[a]]
  /\ writes' = [writes EXCEPT ![p] = NoWrites]
  /\ inserted' = [inserted EXCEPT ![p] = {}]

\* (mutant) the rollback does not reach the store and the connection goes back
\* to the pool with its transaction open: the next BEGIN on it commits it
RollbackSkipped(p) ==
  /\ balance' = [a \in Accounts |-> balance[a] + writes[p][a]]
  /\ ledger' = ledger \cup inserted[p]
  /\ lock' = [a \in Accounts |-> IF lock[a] = p THEN 0 ELSE lock[a]]
  /\ writes' = [writes EXCEPT ![p] = NoWrites]
  /\ inserted' = [inserted EXCEPT ![p] = {}]

\* ROLLBACK: the transaction's writes are discarded, its locks are released.
RollbackWrites(p) ==
  /\ lock' = [a \in Accounts |-> IF lock[a] = p THEN 0 ELSE lock[a]]
  /\ writes' = [writes EXCEPT ![p] = NoWrites]
  /\ inserted' = [inserted EXCEPT ![p] = {}]
  /\ UNCHANGED <<balance, ledger>>

\* ------------------------------------------------- submitTransaction, by step

\* Requests are numbered in their order of arrival.
Arrived(p) == \A q \in Procs : q < p => pc[q] \notin {"idle", "listening"}

\* The controller calls submitTransaction(data): a connection is taken from the
\* pool, the transaction begins, the identifier is drawn, and the amount check
\* and the type switch choose the first statement.
Enter(p, d) ==
  /\ Called(p)
  /\ Acquire(p)
  /\ data' = [data EXCEPT ![p] = d]
  /\ transactionId' = [transactionId EXCEPT ![p] = nextId]
  /\ nextId' = nextId + 1
  /\ IF AmountRejected(d.amount)
     THEN /\ status' = [status EXCEPT ![p] = "failed"]
          /\ failureReason' = [failureReason EXCEPT ![p] = NegativeOrZero]
          /\ pc' = [pc EXCEPT ![p] = "insert"]
     ELSE IF MissingReference(d) # NoReason
     THEN /\ status' = [status EXCEPT ![p] = "failed"]
          /\ failureReason' = [failureReason EXCEPT ![p] = MissingReference(d)]
          /\ pc' = [pc EXCEPT ![p] = "insert"]
     ELSE /\ UNCHANGED <<status, failureReason>>
          /\ pc' = [pc EXCEPT ![p] = IF d.type = "deposit" THEN "deposit" ELSE "check"]
  /\ UNCHANGED <<balance, ledger, initial, lock, faults, seen, txnVars, endVars,
                 reqVars, sent, released, queryVars, submitted>>

\* A direct call of submitTransaction with any CreateTransactionData.
Submit(p) ==
  /\ pc[p] = "idle"
  /\ Arrived(p)
  /\ \E d \in CreateTransactionData : Enter(p, d)

\* The position of a request that is calling submitTransaction.
CallPcs == {"idle", "service"}

\* db.getPool().getConnection() rejects: it is outside the try block, so the
\* error leaves submitTransaction at once.
GetConnectionFails(p) ==
  /\ pc[p] \in CallPcs
  /\ Arrived(p)
  /\ Fault
  /\ Called(p)
  /\ error' = [error EXCEPT ![p] = Unreachable]
  /\ Responds(p, "thrown", Unreachable)
  /\ UNCHANGED <<balance, ledger, initial, lock, nextId, localVars, txnVars, reqVars, poolVars, queryVars, submitted>>

\* const hasBalance = await this.checkSufficientBalance(connection, source, amount)
CheckBalance(p) ==
  /\ pc[p] = "check"
  /\ LET src == data[p].source_account_id
     IN /\ seen' = [seen EXCEPT ![p] = IF src \in Accounts THEN balance[src] ELSE -1]
        /\ IF checkSufficientBalance(balance, src, data[p].amount)
           THEN /\ pc' = [pc EXCEPT ![p] = IF data[p].type = "withdrawal" THEN "withdrawal" ELSE "transfer_debit"]
                /\ UNCHANGED <<status, failureReason>>
           ELSE /\ status' = [status EXCEPT ![p] = "failed"]
                /\ failureReason' = [failureReason EXCEPT ![p] = InsufficientFunds]
                /\ pc' = [pc EXCEPT ![p] = "insert"]
  /\ UNCHANGED <<storeVars, data, transactionId, txnVars, endVars, reqVars, visited, sent, poolVars, queryVars, submitted>>

processDeposit(p) ==
  /\ pc[p] = "deposit"
  /\ Update(p, data[p].destination_account_id, FALSE, data[p].amount, "insert")
  /\ UNCHANGED <<balance, ledger, initial, nextId, faults, localVars, inserted, committed, applied, outcome, httpStatus,
                 reqVars, visited, sent, poolVars, queryVars, submitted>>

processWithdrawal(p) ==
  /\ pc[p] = "withdrawal"
  /\ Update(p, data[p].source_account_id, TRUE, data[p].amount, "insert")
  /\ UNCHANGED <<balance, ledger, initial, nextId, faults, localVars, inserted, committed, applied, outcome, httpStatus,
                 reqVars, visited, sent, poolVars, queryVars, submitted>>

\* processTransfer, first statement: the debit of the source
processTransferDebit(p) ==
  /\ pc[p] = "transfer_debit"
  /\ Update(p, data[p].source_account_id, TRUE, data[p].amount, "transfer_credit")
  /\ UNCHANGED <<balance, ledger, initial, nextId, faults, localVars, inserted, committed, applied, outcome, httpStatus,
                 reqVars, visited, sent, poolVars, queryVars, submitted>>

\* processTransfer, second statement: the credit of the destination
processTransferCredit(p) ==
  /\ pc[p] = "transfer_credit"
  /\ Update(p, data[p].destination_account_id, FALSE, data[p].amount, "insert")
  /\ UNCHANGED <<balance, ledger, initial, nextId, faults, localVars, inserted, committed, applied, outcome, httpStatus,
                 reqVars, visited, sent, poolVars, queryVars, submitted>>

\* INSERT INTO transactions (...) VALUES (...)
InsertTransaction(p) ==
  /\ pc[p] = "insert"
  /\ IF ForeignKeyHolds(data[p].source_account_id) /\ ForeignKeyHolds(data[p].destination_account_id)
     THEN /\ inserted' = [inserted EXCEPT ![p] =
                            {TransactionRow(transactionId[p], data[p], status[p], failureReason[p])}]
          /\ pc' = [pc EXCEPT ![p] = "commit"]
          /\ UNCHANGED error
     ELSE /\ Raise(p, ForeignKeyViolation)
          /\ UNCHANGED inserted
  /\ UNCHANGED <<storeVars, localVars, writes, committed, applied, outcome, httpStatus,
                 reqVars, visited, sent, poolVars, queryVars, submitted>>

\* await connection.commit()
Commit(p) ==
  /\ pc[p] = "commit"
  /\ CommitWrites(p)
  /\ committed' = [committed EXCEPT ![p] = TRUE]
  /\ applied' = [applied EXCEPT ![p] = [a \in Accounts |-> balance'[a] - balance[a]]]
  /\ pc' = [pc EXCEPT ![p] = "readback"]
  /\ UNCHANGED <<initial, nextId, faults, localVars, endVars, reqVars, visited, sent, poolVars, queryVars, submitted>>

\* SELECT * FROM transactions WHERE transaction_id = ?; return the mapped row;
\* finally connection.release()
ReadBack(p) ==
  /\ pc[p] = "readback"
  /\ Release(p)
  /\ Responds(p, "returned", NoError)
  /\ UNCHANGED <<storeVars, localVars, txnVars, error, reqVars, visited, acquired, queryVars, submitted>>

\* catch (error) { await connection.rollback(); throw error; } finally release
Catch(p) ==
  /\ pc[p] = "catch"
  /\ RollbackWrites(p)
  /\ Release(p)
  /\ Responds(p, "thrown", error[p])
  /\ UNCHANGED <<initial, nextId, faults, localVars, committed, applied, error, reqVars, visited, acquired, queryVars, submitted>>

\* connection.rollback() rejects (the connection is lost, and the store
\* discards the transaction of a lost connection): its error replaces the
\* first one, and finally still releases the connection.
RollbackFails(p) ==
  /\ pc[p] = "catch"
  /\ Fault
  /\ RollbackWrites(p)
  /\ Release(p)
  /\ error' = [error EXCEPT ![p] = Unreachable]
  /\ Responds(p, "thrown", Unreachable)
  /\ UNCHANGED <<initial, nextId, localVars, committed, applied, reqVars, visited, acquired, queryVars, submitted>>

\* ------------------------------------------------------ failures of the store

StatementPcs == {"check", "deposit", "withdrawal", "transfer_debit", "transfer_credit",
                 "insert", "commit", "readback"}

\* The store is unreachable (or the connection is lost) while the statement
\* at pc[p] runs: the statement has no effect and its promise rejects.
StoreFails(p) ==
  /\ pc[p] \in StatementPcs
  /\ Fault
  /\ Raise(p, Unreachable)
  /\ UNCHANGED <<balance, ledger, initial, lock, nextId, localVars, txnVars, outcome, httpStatus,
                 reqVars, visited, sent, poolVars, queryVars, submitted>>

\* beginTransaction() rejects: inside the try block, so the catch block runs.
BeginFails(p) ==
  /\ pc[p] \in CallPcs
  /\ Arrived(p)
  /\ Fault
  /\ Called(p)
  /\ Acquire(p)
  /\ Raise(p, Unreachable)
  /\ UNCHANGED <<balance, ledger, initial, lock, nextId, localVars, txnVars, outcome, httpStatus,
                 reqVars, sent, released, queryVars, submitted>>

\* The connection is lost after the store committed and before the driver
\* learnt it: commit() rejects although the transaction is durable.
CommitLostReply(p) ==
  /\ pc[p] = "commit"
  /\ CommitWrites(p)
  /\ committed' = [committed EXCEPT ![p] = TRUE]
  /\ applied' = [applied EXCEPT ![p] = [a \in Accounts |-> balance'[a] - balance[a]]]
  /\ Fault
  /\ Raise(p, ConnectionLost)
  /\ UNCHANGED <<initial, nextId, localVars, outcome, httpStatus, reqVars, visited, sent, poolVars, queryVars, submitted>>

\* The account whose row lock the statement at pc[p] needs, or NoAccount.
Needs(p) ==
  CASE pc[p] \in {"withdrawal", "transfer_debit"} -> data[p].source_account_id
    [] pc[p] \in {"deposit", "transfer_credit"} -> data[p].destination_account_id
    [] OTHER -> NoAccount

WaitsFor(p, q) ==
  /\ p # q
  /\ Needs(p) \in Accounts
  /\ lock[Needs(p)] = q

\* InnoDB's deadlock detection: of two transactions waiting for each other's
\* row lock, one is chosen and its statement fails.
DeadlockVictim(p) ==
  /\ \E q \in Procs : WaitsFor(p, q) /\ WaitsFor(q, p)
  /\ Raise(p, Deadlock)
  /\ UNCHANGED <<storeVars, localVars, txnVars, outcome, httpStatus, reqVars, visited, sent, poolVars, queryVars, submitted>>

Next ==
  \E p \in Procs :
    \/ Submit(p)
    \/ GetConnectionFails(p)
    \/ BeginFails(p)
    \/ CheckBalance(p)
    \/ processDeposit(p)
    \/ processWithdrawal(p)
    \/ processTransferDebit(p)
    \/ processTransferCredit(p)
    \/ InsertTransaction(p)
    \/ Commit(p)
    \/ CommitLostReply(p)
    \/ ReadBack(p)
    \/ Catch(p)
    \/ RollbackFails(p)
    \/ StoreFails(p)
    \/ DeadlockVictim(p)

Spec == Init /\ [][Next]_vars

\* ------------------------------------------------- the request pipeline, by step

\* Everything of the store but the count of injected failures.
dataVars == <<balance, ledger, initial, lock, nextId>>

\* Stage `stage` starts for request p.
Visit(p, stage) == visited' = [visited EXCEPT ![p] = @ \cup {stage}]

\* (mutant) router.use(authenticateUser) is mounted first
GatedAll(r) == TRUE

\* router.use('/reports', reportRoutes) precedes router.use(authenticateUser):
\* a request for any other route passes through authenticateUser.
Gated(r) == r # "reports"

\* A request arrives. Its headers are read now; its body and parameters are
\* read by the first middleware that uses them.
Receive(p) ==
  /\ pc[p] = "listening"
  /\ Arrived(p)
  /\ \E r \in Routes, k \in SecretKeys :
       /\ route' = [route EXCEPT ![p] = r]
       /\ secretKey' = [secretKey EXCEPT ![p] = k]
       /\ pc' = [pc EXCEPT ![p] = IF Gated(r) THEN "gate" ELSE "report_accounts"]
  /\ UNCHANGED <<storeVars, localVars, txnVars, endVars, user, body, paramsId, visited, sent, poolVars, queryVars, submitted>>

authenticateUser(p) ==
  /\ pc[p] = "gate"
  /\ Visit(p, "gate")
  /\ IF secretKey[p] = 0
     THEN /\ Reply(p, 401, MissingKeyMessage)
          /\ UNCHANGED user
     ELSE IF findBySecretKey(secretKey[p]) = NoUser
     THEN /\ Reply(p, 401, InvalidKeyMessage)
          /\ UNCHANGED user
     ELSE /\ user' = [user EXCEPT ![p] = findBySecretKey(secretKey[p])]
          /\ pc' = [pc EXCEPT ![p] = "validate"]
          /\ UNCHANGED <<httpStatus, sent>>
  /\ UNCHANGED <<storeVars, localVars, txnVars, error, outcome, route, secretKey, body, paramsId, poolVars, queryVars, submitted>>

\* UserService.findBySecretKey rejects ('Failed to find user'): the catch
\* block of authenticateUser answers 500.
authenticateUserFails(p) ==
  /\ pc[p] = "gate"
  /\ secretKey[p] # 0
  /\ Fault
  /\ Visit(p, "gate")
  /\ error' = [error EXCEPT ![p] = Unreachable]
  /\ Reply(p, 500, AuthUnavailable)
  /\ UNCHANGED <<dataVars, localVars, txnVars, outcome, reqVars, poolVars, queryVars, submitted>>

\* validate(schemas.transaction, 'body')
validateBody(p) ==
  /\ pc[p] = "validate"
  /\ route[p] = "transactions"
  /\ Visit(p, "validate")
  /\ \E b \in Bodies :
       /\ body' = [body EXCEPT ![p] = b]
       /\ IF schemas_transaction(b)
          THEN /\ pc' = [pc EXCEPT ![p] = "controller"]
               /\ UNCHANGED <<httpStatus, sent>>
          ELSE Reply(p, 400, ValidationError)
  /\ UNCHANGED <<storeVars, localVars, txnVars, error, outcome, route, secretKey, user, paramsId, poolVars, queryVars, submitted>>

\* validate(schemas.accountId, 'params')
validateParams(p) ==
  /\ pc[p] = "validate"
  /\ route[p] = "balance"
  /\ Visit(p, "validate")
  /\ \E id \in ParamIds :
       /\ paramsId' = [paramsId EXCEPT ![p] = id]
       /\ IF schemas_accountId(id)
          THEN /\ pc' = [pc EXCEPT ![p] = "balance_controller"]
               /\ UNCHANGED <<httpStatus, sent>>
          ELSE Reply(p, 400, ValidationError)
  /\ UNCHANGED <<storeVars, localVars, txnVars, error, outcome, route, secretKey, user, body, poolVars, queryVars, submitted>>

\* (mutant) only the presence of req.user is checked
OwnerUnchecked(u, a) == u = NoUser

\* if (!req.user || account.user_id !== req.user.id)
NotOwner(u, a) == u = NoUser \/ user_id(a) # u

\* The message of the AppError the account checks of
\* TransactionController.submitTransaction throw for body b and user u, or "".
AccountCheck(b, u) ==
  IF ~Absent(b.source_account_id) /\ findById(b.source_account_id) = NoAccount
  THEN SourceNotFound
  ELSE IF ~Absent(b.source_account_id) /\ NotOwner(u, b.source_account_id)
  THEN UnauthorizedSource
  ELSE IF ~Absent(b.destination_account_id) /\ b.type = "deposit"
          /\ findById(b.destination_account_id) = NoAccount
  THEN DestinationNotFound
  ELSE IF ~Absent(b.destination_account_id) /\ b.type = "deposit"
          /\ NotOwner(u, b.destination_account_id)
  THEN UnauthorizedDestination
  ELSE ""

\* TransactionController.submitTransaction up to the call of the service. An
\* AppError thrown here is caught by the controller's own catch block.
checkAccounts(p) ==
  /\ pc[p] = "controller"
  /\ Visit(p, "ownership")
  /\ IF AccountCheck(body[p], user[p]) = ""
     THEN /\ pc' = [pc EXCEPT ![p] = "service"]
          /\ UNCHANGED <<httpStatus, sent>>
     ELSE Rethrown(p, AccountCheck(body[p], user[p]))
  /\ UNCHANGED <<storeVars, localVars, txnVars, error, outcome, reqVars, poolVars, queryVars, submitted>>

\* const transaction = await TransactionService.submitTransaction(req.body)
callService(p) ==
  /\ pc[p] = "service"
  /\ Enter(p, ServiceData(body[p]))

\* The message of the AppError AccountController.getAccountBalance throws
\* before it queries the balance, or "".
BalanceCheck(id, u) ==
  IF findById(id) = NoAccount THEN AccountNotFound
  ELSE IF NotOwner(u, id) THEN UnauthorizedAccount
  ELSE ""

\* AccountController.getAccountBalance up to the query of the balance.
balanceController(p) ==
  /\ pc[p] = "balance_controller"
  /\ Visit(p, "ownership")
  /\ IF BalanceCheck(paramsId[p], user[p]) = ""
     THEN /\ pc' = [pc EXCEPT ![p] = "balance_query"]
          /\ UNCHANGED <<httpStatus, sent>>
     ELSE Rethrown(p, BalanceCheck(paramsId[p], user[p]))
  /\ UNCHANGED <<storeVars, localVars, txnVars, error, outcome, reqVars, poolVars, queryVars, submitted>>

\* TransactionService.getAccountBalance and the 200 response
getAccountBalance(p) ==
  /\ pc[p] = "balance_query"
  /\ Visit(p, "query")
  /\ IF findById(paramsId[p]) = NoAccount
     THEN /\ Rethrown(p, AccountNotFound)
          /\ UNCHANGED <<result, readAt>>
     ELSE /\ result' = [result EXCEPT ![p] = SelectBalance(balance, paramsId[p])]
          /\ readAt' = [readAt EXCEPT ![p] = Cardinality(ledger)]
          /\ Reply(p, 200, "")
  /\ UNCHANGED <<storeVars, localVars, txnVars, error, outcome, reqVars, poolVars, report, submitted>>

\* getSummaryReport, first query (accounts)
getSummaryReportAccounts(p) ==
  /\ pc[p] = "report_accounts"
  /\ Visit(p, "query")
  /\ report' = [report EXCEPT ![p].accounts = AccountSummaries(balance, ledger)]
  /\ pc' = [pc EXCEPT ![p] = "report_failed"]
  /\ UNCHANGED <<storeVars, localVars, txnVars, endVars, reqVars, sent, poolVars, result, readAt, submitted>>

\* getSummaryReport, second query (failed transactions) and the 200 response
getSummaryReportFailed(p) ==
  /\ pc[p] = "report_failed"
  /\ report' = [report EXCEPT ![p].failed_transactions = failed_transactions(ledger)]
  /\ Reply(p, 200, "")
  /\ UNCHANGED <<storeVars, localVars, txnVars, error, outcome, reqVars, visited, poolVars, result, readAt, submitted>>

\* The positions at which a controller or a query reads the store through
\* the pool, and the stage each belongs to.
QueryPcs == {"controller", "balance_controller", "balance_query", "report_accounts", "report_failed"}

StageAt(at) == IF at \in {"controller", "balance_controller"} THEN "ownership" ELSE "query"

\* The store is unreachable while the query at pc[p] runs: the controller's
\* catch block rethrows the driver's error as AppError(error.message, 400).
QueryFails(p) ==
  /\ pc[p] \in QueryPcs
  /\ Fault
  /\ Visit(p, StageAt(pc[p]))
  /\ error' = [error EXCEPT ![p] = Unreachable]
  /\ Rethrown(p, Unreachable)
  /\ UNCHANGED <<dataVars, localVars, txnVars, outcome, reqVars, poolVars, queryVars, submitted>>

\* --------------------------------------- DatabaseConnection.transaction, by step

\* transaction(callback): getConnection and beginTransaction
transaction(p) ==
  /\ pc[p] = "listening"
  /\ Arrived(p)
  /\ route' = [route EXCEPT ![p] = UnitCall]
  /\ Acquire(p)
  /\ pc' = [pc EXCEPT ![p] = "unit_callback"]
  /\ UNCHANGED <<storeVars, localVars, txnVars, endVars, secretKey, user, body, paramsId, visited, sent, released, queryVars, submitted>>

\* const result = await callback(connection): it resolves or it rejects
transactionCallback(p) ==
  /\ pc[p] = "unit_callback"
  /\ \/ /\ pc' = [pc EXCEPT ![p] = "unit_commit"]
        /\ UNCHANGED error
     \/ /\ error' = [error EXCEPT ![p] = CallbackError]
        /\ pc' = [pc EXCEPT ![p] = "unit_catch"]
  /\ UNCHANGED <<storeVars, localVars, txnVars, outcome, httpStatus, reqVars, visited, sent, poolVars, queryVars, submitted>>

\* await connection.commit(); return result; finally release
transactionCommit(p) ==
  /\ pc[p] = "unit_commit"
  /\ Release(p)
  /\ committed' = [committed EXCEPT ![p] = TRUE]
  /\ outcome' = [outcome EXCEPT ![p] = "returned"]
  /\ pc' = [pc EXCEPT ![p] = "done"]
  /\ UNCHANGED <<storeVars, localVars, writes, inserted, applied, error, httpStatus, reqVars, visited, sent, acquired, queryVars, submitted>>

\* connection.commit() rejects: the catch block runs
transactionCommitFails(p) ==
  /\ pc[p] = "unit_commit"
  /\ Fault
  /\ error' = [error EXCEPT ![p] = Unreachable]
  /\ pc' = [pc EXCEPT ![p] = "unit_catch"]
  /\ UNCHANGED <<dataVars, localVars, txnVars, outcome, httpStatus, reqVars, visited, sent, poolVars, queryVars, submitted>>

\* catch (error) { await connection.rollback(); throw error; } finally release
transactionCatch(p) ==
  /\ pc[p] = "unit_catch"
  /\ Release(p)
  /\ outcome' = [outcome EXCEPT ![p] = "thrown"]
  /\ pc' = [pc EXCEPT ![p] = "done"]
  /\ UNCHANGED <<storeVars, localVars, txnVars, error, httpStatus, reqVars, visited, sent, acquired, queryVars, submitted>>

\* connection.rollback() rejects: its error is thrown, finally still releases
transactionRollbackFails(p) ==
  /\ pc[p] = "unit_catch"
  /\ Fault
  /\ Release(p)
  /\ error' = [error EXCEPT ![p] = Unreachable]
  /\ outcome' = [outcome EXCEPT ![p] = "thrown"]
  /\ pc' = [pc EXCEPT ![p] = "done"]
  /\ UNCHANGED <<dataVars, localVars, txnVars, httpStatus, reqVars, visited, sent, acquired, queryVars, submitted>>

NextServer ==
  \E p \in Procs :
    \/ Receive(p)
    \/ authenticateUser(p)
    \/ authenticateUserFails(p)
    \/ validateBody(p)
    \/ validateParams(p)
    \/ checkAccounts(p)
    \/ callService(p)
    \/ balanceController(p)
    \/ getAccountBalance(p)
    \/ getSummaryReportAccounts(p)
    \/ getSummaryReportFailed(p)
    \/ QueryFails(p)
    \/ GetConnectionFails(p)
    \/ BeginFails(p)
    \/ CheckBalance(p)
    \/ processDeposit(p)
    \/ processWithdrawal(p)
    \/ processTransferDebit(p)
    \/ processTransferCredit(p)
    \/ InsertTransaction(p)
    \/ Commit(p)
    \/ CommitLostReply(p)
    \/ ReadBack(p)
    \/ Catch(p)
    \/ RollbackFails(p)
    \/ StoreFails(p)
    \/ DeadlockVictim(p)
    \/ transaction(p)
    \/ transactionCallback(p)
    \/ transactionCommit(p)
    \/ transactionCommitFails(p)
    \/ transactionCatch(p)
    \/ transactionRollbackFails(p)

SpecServer == InitServer /\ [][NextServer]_vars

\* ------------------------------------------- requests served one at a time

\* A third specification, SpecSerial, runs the service without overlap and
\* without store failures: a request starts when no other is in progress, and
\* a request that ended gives its place to a new one. Up to MaxRows
\* submissions are made, so that the queries read a ledger of several rows.

\* No request other than p is in progress.
Alone(p) == \A q \in Procs \ {p} : pc[q] \in {"idle", "done"}

\* The data of a submission whose references all name accounts.
ValidData ==
  { d \in CreateTransactionData :
      /\ d.amount >= 0
      /\ MissingReference(d) = NoReason
      /\ d.source_account_id \in Accounts \cup {NoAccount}
      /\ d.destination_account_id \in Accounts \cup {NoAccount} }

\* TransactionService.submitTransaction(data) is called.
submitAlone(p) ==
  /\ pc[p] = "idle"
  /\ Arrived(p)
  /\ Alone(p)
  /\ nextId <= MaxRows
  /\ \E d \in ValidData : Enter(p, d)

\* TransactionService.getAccountBalance(accountId) is called.
balanceAlone(p) ==
  /\ pc[p] = "idle"
  /\ Arrived(p)
  /\ Alone(p)
  /\ \E id \in 1..(NumAccounts + 1) : paramsId' = [paramsId EXCEPT ![p] = id]
  /\ route' = [route EXCEPT ![p] = "balance"]
  /\ pc' = [pc EXCEPT ![p] = "balance_query"]
  /\ UNCHANGED <<storeVars, localVars, txnVars, endVars, secretKey, user, body, visited, sent,
                 poolVars, queryVars, submitted>>

\* TransactionService.getSummaryReport() is called.
reportAlone(p) ==
  /\ pc[p] = "idle"
  /\ Arrived(p)
  /\ Alone(p)
  /\ route' = [route EXCEPT ![p] = "reports"]
  /\ pc' = [pc EXCEPT ![p] = "report_accounts"]
  /\ UNCHANGED <<storeVars, localVars, txnVars, endVars, secretKey, user, body, paramsId, visited, sent,
                 poolVars, queryVars, submitted>>

\* The place of a request that ended is taken by a new request.
Again(p) ==
  /\ pc[p] = "done"
  /\ Alone(p)
  /\ pc' = [pc EXCEPT ![p] = "idle"]
  /\ route' = [route EXCEPT ![p] = "none"]
  /\ paramsId' = [paramsId EXCEPT ![p] = 0]
  /\ visited' = [visited EXCEPT ![p] = {}]
  /\ sent' = [sent EXCEPT ![p] = ""]
  /\ acquired' = [acquired EXCEPT ![p] = 0]
  /\ released' = [released EXCEPT ![p] = 0]
  /\ data' = [data EXCEPT ![p] = NoData]
  /\ transactionId' = [transactionId EXCEPT ![p] = 0]
  /\ status' = [status EXCEPT ![p] = "completed"]
  /\ failureReason' = [failureReason EXCEPT ![p] = NoReason]
  /\ seen' = [seen EXCEPT ![p] = -1]
  /\ committed' = [committed EXCEPT ![p] = FALSE]
  /\ applied' = [applied EXCEPT ![p] = NoWrites]
  /\ outcome' = [outcome EXCEPT ![p] = "none"]
  /\ httpStatus' = [httpStatus EXCEPT ![p] = 0]
  /\ result' = [result EXCEPT ![p] = -1]
  /\ report' = [report EXCEPT ![p] = NoReport]
  /\ readAt' = [readAt EXCEPT ![p] = 0]
  /\ UNCHANGED <<storeVars, writes, inserted, error, secretKey, user, body, submitted>>

NextSerial ==
  \E p \in Procs :
    \/ submitAlone(p)
    \/ CheckBalance(p)
    \/ processDeposit(p)
    \/ processWithdrawal(p)
    \/ processTransferDebit(p)
    \/ processTransferCredit(p)
    \/ InsertTransaction(p)
    \/ Commit(p)
    \/ ReadBack(p)
    \/ balanceAlone(p)
    \/ getAccountBalance(p)
    \/ reportAlone(p)
    \/ getSummaryReportAccounts(p)
    \/ getSummaryReportFailed(p)
    \/ Again(p)

SpecSerial == Init /\ [][NextSerial]_vars

\* --------------------------------------- amounts that are not whole cents

\* A fourth specification, SpecDecimal, submits amounts with three decimal
\* places (schemas.transaction asks only for a number). Such an amount is
\* counted in thousandths; balances and the amount column stay in cents. The
\* store computes balance - ? and balance + ? exactly and rounds a value
\* assigned to a DECIMAL(15,2) column half away from zero. Submissions are
\* served one at a time and the store does not fail.

\* The cents a DECIMAL(15,2) column keeps of a value >= 0 given in thousandths.
Decimal15_2(thousandths) == (thousandths + 5) \div 10

\* The accounts rows after UPDATE accounts SET balance = balance -/+ ? WHERE
\* id = accountId, with ? in thousandths.
UpdatedBalance(bal, accountId, debit, thousandths) ==
  [bal EXCEPT ![accountId] =
     Decimal15_2(IF debit THEN Debited(bal[accountId] * 10, thousandths)
                          ELSE Credited(bal[accountId] * 10, thousandths))]

\* processDeposit, processWithdrawal, processTransfer: the accounts rows after
\* the statements of a submission of type d.type that passed its checks.
Processed(bal, d, thousandths) ==
  CASE d.type = "deposit" -> UpdatedBalance(bal, d.destination_account_id, FALSE, thousandths)
    [] d.type = "withdrawal" -> UpdatedBalance(bal, d.source_account_id, TRUE, thousandths)
    [] OTHER -> UpdatedBalance(UpdatedBalance(bal, d.source_account_id, TRUE, thousandths),
                               d.destination_account_id, FALSE, thousandths)

\* The failure reason submitTransaction sets for data d with an amount in
\* thousandths, or NoReason: the checks compare the amount as submitted.
DecimalFailure(bal, d, thousandths) ==
  IF AmountRejected(thousandths) THEN NegativeOrZero
  ELSE IF d.type # "deposit" /\ ~(bal[d.source_account_id] * 10 >= thousandths)
  THEN InsufficientFunds
  ELSE NoReason

InitDecimal == Start("decimal", 1..MaxInitBalance)

\* submitTransaction(data) from its call to its return, for data whose
\* references name accounts and whose amount has three decimal places.
submitThousandths(p) ==
  /\ pc[p] = "decimal"
  /\ \A q \in Procs : q < p => pc[q] = "done"
  /\ \E d \in { v \in ValidData : v.amount = 0 }, thousandths \in 0..MaxThousandths :
       LET reason == DecimalFailure(balance, d, thousandths)
           st == IF reason = NoReason THEN "completed" ELSE "failed"
           stored == [d EXCEPT !.amount = Decimal15_2(thousandths)]
       IN /\ submitted' = [submitted EXCEPT ![p] = thousandths]
          /\ data' = [data EXCEPT ![p] = stored]
          /\ transactionId' = [transactionId EXCEPT ![p] = nextId]
          /\ nextId' = nextId + 1
          /\ status' = [status EXCEPT ![p] = st]
          /\ failureReason' = [failureReason EXCEPT ![p] = reason]
          /\ seen' = [seen EXCEPT ![p] = IF d.type = "deposit" \/ AmountRejected(thousandths)
                                         THEN -1 ELSE balance[d.source_account_id]]
          /\ balance' = IF reason = NoReason THEN Processed(balance, d, thousandths) ELSE balance
          /\ \A a \in Accounts : chk_balance_non_negative(balance'[a])
          /\ ledger' = ledger \cup {TransactionRow(nextId, stored, st, reason)}
  /\ committed' = [committed EXCEPT ![p] = TRUE]
  /\ applied' = [applied EXCEPT ![p] = [a \in Accounts |-> balance'[a] - balance[a]]]
  /\ Called(p)
  /\ Acquire(p)
  /\ Release(p)
  /\ Responds(p, "returned", NoError)
  /\ UNCHANGED <<initial, lock, faults, writes, inserted, error, reqVars, queryVars>>

NextDecimal == \E p \in Procs : submitThousandths(p)

SpecDecimal == InitDecimal /\ [][NextDecimal]_vars

\* ------------------------------------------------------------------ claims

\* The committed ledger rows of request p.
RowsOf(p) == { r \in ledger : r.transaction_id = transactionId[p] }

\* The errors of an injected failure of the store.
Injected == {Unreachable, ConnectionLost}

\* Request p ended, and the store was not made to fail under it.
Finished(p) == pc[p] = "done" /\ error[p] \notin Injected

\* Request p passed the sufficient-funds check and has not yet debited.
PassedCheck(p) == pc[p] \in {"withdrawal", "transfer_debit"}

\* C1: in every committed state every account's balance is >= 0, after any
\* sequence and interleaving of deposits, withdrawals and transfers.
C1_BalanceNonNegative == \A a \in Accounts : balance[a] >= 0

\* C1 witness: two interleaved debits emptied an account and the store's
\* constraint refused the second one.
C1_Witness ==
  \E p \in Procs : \E a \in Accounts :
    /\ pc[p] = "done"
    /\ error[p] = CheckViolation
    /\ data[p].source_account_id = a
    /\ balance[a] = 0

\* C2 (as claimed): two requests debiting the same source never both pass the
\* sufficient-funds check against the same pre-debit balance when that balance
\* covers each amount but not their sum.
C2_ChecksSerialized ==
  \A p, q \in Procs :
    ~ ( /\ p # q
        /\ PassedCheck(p) /\ PassedCheck(q)
        /\ data[p].source_account_id = data[q].source_account_id
        /\ seen[p] = seen[q]
        /\ seen[p] = balance[data[p].source_account_id]
        /\ data[p].amount <= seen[p] /\ data[q].amount <= seen[q]
        /\ data[p].amount + data[q].amount > seen[p] )

\* The row request p inserts when it ends with status st and reason.
RowFor(p, st, reason) == TransactionRow(transactionId[p], data[p], st, reason)

\* The change of every balance a completed movement d makes.
Effect(d) ==
  [a \in Accounts |->
     (IF d.type \in {"deposit", "transfer"} /\ d.destination_account_id = a THEN d.amount ELSE 0)
     - (IF d.type \in {"withdrawal", "transfer"} /\ d.source_account_id = a THEN d.amount ELSE 0)]

\* C3 (as claimed): a transfer between two accounts either moves the amount
\* (source -a, destination +a) with one completed row, or changes no balance
\* with one failed row.
C3_TransferAllOrNothing ==
  \A p \in Procs :
    ( /\ Finished(p)
      /\ data[p].type = "transfer"
      /\ data[p].source_account_id \in Accounts
      /\ data[p].destination_account_id \in Accounts )
    => \/ /\ applied[p] = Effect(data[p])
          /\ RowsOf(p) = {RowFor(p, "completed", NoReason)}
       \/ /\ applied[p] = NoWrites
          /\ \E reason \in {NegativeOrZero, InsufficientFunds} :
               RowsOf(p) = {RowFor(p, "failed", reason)}

\* C4 (as claimed): every call of submitTransaction persists exactly one row,
\* and no two persisted rows share a transaction_id.
C4_ExactlyOneRow ==
  /\ \A p \in Procs :
       (Finished(p) /\ ControllerAdmits(data[p])) => Cardinality(RowsOf(p)) = 1
  /\ \A r1, r2 \in ledger : r1.transaction_id = r2.transaction_id => r1 = r2

RECURSIVE SumOver(_, _)
\* The sum of the function f over the finite set S of its arguments.
SumOver(S, f) ==
  IF S = {} THEN 0
  ELSE LET x == CHOOSE y \in S : TRUE
       IN f[x] + SumOver(S \ {x}, f)

\* What a committed row says happened to account a.
RowEffect(r, a) ==
  IF r.status = "completed"
  THEN (IF r.destination_account_id = a THEN r.amount ELSE 0)
       - (IF r.source_account_id = a THEN r.amount ELSE 0)
  ELSE 0

C7_WithdrawalIffCovered ==
  \A p \in Procs :
    ( /\ Finished(p)
      /\ data[p].type = "withdrawal"
      /\ data[p].amount > 0
      /\ data[p].source_account_id \in Accounts )
    => IF data[p].amount <= seen[p]
       THEN /\ applied[p] = Effect(data[p])
            /\ RowsOf(p) = {RowFor(p, "completed", NoReason)}
       ELSE /\ applied[p] = NoWrites
            /\ RowsOf(p) = {RowFor(p, "failed", InsufficientFunds)}

\* C8 (as claimed): a submission with amount <= 0 persists a failed row with
\* reason "Negative or zero amount not allowed", changes no balance, and
\* neither reads nor writes a balance, whatever else is wrong with it.
C8_NonPositiveAmountRecorded ==
  \A p \in Procs :
    (Finished(p) /\ ControllerAdmits(data[p]) /\ data[p].amount <= 0)
    => /\ RowsOf(p) = {RowFor(p, "failed", NegativeOrZero)}
       /\ applied[p] = NoWrites
       /\ seen[p] = -1

\* The store found the funds of request p insufficient.
RefusedByStore(p) == error[p] = CheckViolation

\* C9 (as claimed): a business-rule violation (amount <= 0, missing reference,
\* insufficient funds) is never a thrown error or an error response: the
\* service returns a failed Transaction with a reason and the answer is 201.
C9_BusinessRuleNeverThrows ==
  \A p \in Procs :
    ( /\ Finished(p)
      /\ \A id \in {data[p].source_account_id, data[p].destination_account_id} :
           id = NoAccount \/ id \in Accounts
      /\ failureReason[p] # NoReason \/ RefusedByStore(p) )
    => /\ outcome[p] = "returned"
       /\ httpStatus[p] = 201
       /\ \E reason \in {NegativeOrZero, DestinationRequired, SourceRequired,
                         BothRequired, InsufficientFunds} :
            RowsOf(p) = {RowFor(p, "failed", reason)}

\* C10: when a store operation of a submission raises before commit, nothing
\* of it is ever committed: no ledger row, no balance change (every committed
\* balance is the initial one plus what commits applied), nothing left
\* pending, and the error reaches the caller.
C10_RolledBack ==
  /\ \A p \in Procs :
       (error[p] # NoError /\ ~committed[p])
       => /\ RowsOf(p) = {}
          /\ applied[p] = NoWrites
          /\ pc[p] = "done" =>
               /\ outcome[p] = "thrown" /\ httpStatus[p] # 201
               /\ writes[p] = NoWrites /\ inserted[p] = {}
               /\ \A a \in Accounts : lock[a] # p
  /\ \A a \in Accounts :
       balance[a] = initial[a] + SumOver(Procs, [p \in Procs |-> applied[p][a]])

\* C10 witness: a transfer debited its source, then its INSERT was refused
\* (the destination names no account), and the debit is not in the committed
\* balance.
C10_Witness ==
  \E p \in Procs :
    /\ pc[p] = "done"
    /\ error[p] = ForeignKeyViolation
    /\ data[p].type = "transfer" /\ status[p] = "completed"
    /\ seen[p] >= data[p].amount
    /\ \A q \in Procs \ {p} : pc[q] = "idle"
    /\ balance = initial
    /\ ledger = {}

\* C11 (as claimed): transfers take their two row locks in one fixed order, so
\* two concurrent transfers in opposite directions never wait for each other
\* and neither is aborted by the store's deadlock detection.
C11_TransfersNeverDeadlock ==
  /\ \A p, q \in Procs : ~(WaitsFor(p, q) /\ WaitsFor(q, p))
  /\ \A p \in Procs : data[p].type = "transfer" => error[p] # Deadlock

\* ------------------------------------------------- claims about the pipeline

\* The stages after authenticateUser.
BehindGate == {"validate", "ownership", "engine", "query"}

\* Request p changed nothing in the store and holds nothing of it.
Untouched(p) ==
  /\ applied[p] = NoWrites /\ writes[p] = NoWrites
  /\ inserted[p] = {} /\ transactionId[p] = 0
  /\ ~committed[p]
  /\ \A a \in Accounts : lock[a] # p

\* C12: a request for /api/transactions or /api/accounts/:id/balance whose
\* X-Secret-Key is absent or is the key of no user is answered 401; request
\* validation, the ownership checks, the engine and the balance query never
\* run for it, and it changes no balance and no ledger row.
C12_UnauthenticatedRejected ==
  \A p \in Procs :
    (route[p] \in {"transactions", "balance"} /\ secretKey[p] \notin Users)
    => /\ visited[p] \cap BehindGate = {}
       /\ user[p] = NoUser /\ body[p] = NoBody /\ paramsId[p] = 0
       /\ Untouched(p)
       /\ (pc[p] = "done" /\ error[p] = NoError) => httpStatus[p] = 401
       /\ secretKey[p] = 0 => error[p] = NoError

\* C12 witness: a transaction request with a key of no user has been answered
\* 401 while another request's money movement was committed.
C12_Witness ==
  \E p, q \in Procs :
    /\ route[p] = "transactions" /\ secretKey[p] = NumUsers + 1
    /\ pc[p] = "done" /\ httpStatus[p] = 401
    /\ committed[q] /\ applied[q] # NoWrites

\* C13: no request authenticated as user U debits an account U does not own,
\* nor credits one by a deposit: every completed withdrawal or transfer has a
\* source owned by the caller and every completed deposit a destination owned
\* by the caller.
C13_OnlyOwnerMovesMoney ==
  \A p \in Procs :
    route[p] = "transactions"
    => /\ \A a \in Accounts :
            (writes[p][a] < 0 \/ applied[p][a] < 0) => user_id(a) = secretKey[p]
       /\ \A a \in Accounts :
            (data[p].type = "deposit" /\ (writes[p][a] > 0 \/ applied[p][a] > 0))
            => user_id(a) = secretKey[p]
       /\ (committed[p] /\ status[p] = "completed")
            => /\ secretKey[p] \in Users /\ user[p] = secretKey[p]
               /\ data[p].type \in {"withdrawal", "transfer"}
                    => /\ data[p].source_account_id \in Accounts
                       /\ user_id(data[p].source_account_id) = secretKey[p]
               /\ data[p].type = "deposit"
                    => /\ data[p].destination_account_id \in Accounts
                       /\ user_id(data[p].destination_account_id) = secretKey[p]

\* C13 witness: a completed transfer out of the caller's account into an
\* account of another user is committed.
C13_Witness ==
  \E p \in Procs :
    /\ route[p] = "transactions" /\ pc[p] = "done" /\ httpStatus[p] = 201
    /\ data[p].type = "transfer" /\ status[p] = "completed"
    /\ user_id(data[p].source_account_id) = secretKey[p]
    /\ data[p].destination_account_id \in Accounts
    /\ user_id(data[p].destination_account_id) # secretKey[p]
    /\ applied[p][data[p].source_account_id] < 0

\* Request p is authenticated and its shape was accepted.
Admitted(p) == user[p] \in Users /\ "ownership" \in visited[p]

\* The transaction request p names an account of another user where the
\* caller must be the owner.
ForeignInBody(p) ==
  /\ route[p] = "transactions"
  /\ \/ /\ body[p].source_account_id \in Accounts
        /\ user_id(body[p].source_account_id) # user[p]
     \/ /\ body[p].type = "deposit"
        /\ body[p].destination_account_id \in Accounts
        /\ user_id(body[p].destination_account_id) # user[p]

\* The balance request p names an account of another user.
ForeignInParams(p) ==
  /\ route[p] = "balance"
  /\ paramsId[p] \in Accounts
  /\ user_id(paramsId[p]) # user[p]

\* C14 (as claimed): a transaction request whose source account (or, for a
\* deposit, destination account) belongs to another user, and a balance
\* request for an account of another user, is answered 403 and the engine is
\* not invoked.
C14_ForeignAccountForbidden ==
  \A p \in Procs :
    ( /\ Admitted(p) /\ pc[p] = "done" /\ error[p] = NoError
      /\ ForeignInBody(p) \/ ForeignInParams(p) )
    => /\ httpStatus[p] = 403
       /\ "engine" \notin visited[p] /\ "query" \notin visited[p]

\* The request p names an account id that is no row of accounts, and no
\* account of another user.
MissingAccount(p) ==
  /\ ~ForeignInBody(p) /\ ~ForeignInParams(p)
  /\ \/ /\ route[p] = "transactions"
        /\ \E id \in {body[p].source_account_id, body[p].destination_account_id} :
             PositiveInteger(id) /\ id \notin Accounts
     \/ /\ route[p] = "balance"
        /\ PositiveInteger(paramsId[p]) /\ paramsId[p] \notin Accounts

\* C15 (as claimed): a request naming an account id that does not exist, as
\* source or destination of a transaction of any type or as the account of a
\* balance query, is answered 404 before the engine runs, and changes no
\* balance and no ledger row.
C15_MissingAccountNotFound ==
  \A p \in Procs :
    (Admitted(p) /\ pc[p] = "done" /\ error[p] \notin Injected /\ MissingAccount(p))
    => /\ httpStatus[p] = 404
       /\ "engine" \notin visited[p] /\ "query" \notin visited[p]
       /\ Untouched(p)

\* The validator let the body of request p through.
Accepted(p) == pc[p] = "controller" \/ "ownership" \in visited[p]

\* The validator answered request p itself.
Refused(p) ==
  /\ pc[p] = "done" /\ httpStatus[p] = 400 /\ sent[p] = ValidationError
  /\ visited[p] = {"gate", "validate"}
  /\ Untouched(p)

\* The shape of a body as the claim words it: a reference is "present" when
\* the body has the key, whatever its value.
ShapeAsClaimed(b) ==
  /\ b.type \in {"deposit", "withdrawal", "transfer"}
  /\ b.amountIsNumber
  /\ (b.source_account_id # 0) <=> (b.type \in {"withdrawal", "transfer"})
  /\ (b.destination_account_id # 0) <=> (b.type \in {"deposit", "transfer"})

ShapeAmended(b) ==
  /\ b.type \in {"deposit", "withdrawal", "transfer"}
  /\ b.amountIsNumber
  /\ IF b.type \in {"withdrawal", "transfer"}
     THEN b.source_account_id >= 1 ELSE b.source_account_id = 0
  /\ IF b.type \in {"deposit", "transfer"}
     THEN b.destination_account_id >= 1 ELSE b.destination_account_id = 0

StoreErrors == {Unreachable, ConnectionLost, CheckViolation, ForeignKeyViolation, Deadlock}

\* C17 (as claimed): an infrastructure failure during a submission or a query
\* (store unreachable, unexpected constraint or foreign-key violation,
\* deadlock abort) is answered 500, and no partial mutation of the request is
\* committed.
C17_InfrastructureFailureIs500 ==
  \A p \in Procs :
    (route[p] \in Routes /\ pc[p] = "done" /\ error[p] \in StoreErrors)
    => /\ httpStatus[p] = 500
       /\ ~committed[p] => (applied[p] = NoWrites /\ RowsOf(p) = {})

\* C18 (as claimed): no error response carries internal error detail: the
\* message sent to the caller is never the text of an error the store raised.
C18_NoStoreTextInResponse ==
  \A p \in Procs : pc[p] = "done" => sent[p] \notin StoreErrors

\* The positions at which a request holds the connection of its atomic unit.
HoldingPcs == StatementPcs \cup {"catch", "unit_callback", "unit_commit", "unit_catch"}

\* C19: every pooled connection acquired for an atomic unit (submitTransaction
\* or DatabaseConnection.transaction) is released exactly once on every exit
\* path, so no connection is checked out when no request is in flight.
C19_ConnectionReleasedOnce ==
  /\ \A p \in Procs :
       /\ released[p] <= acquired[p] /\ acquired[p] <= 1
       /\ (acquired[p] - released[p] = 1) <=> (pc[p] \in HoldingPcs)
       /\ pc[p] = "done" => released[p] = acquired[p]
  /\ (\A p \in Procs : pc[p] \in {"listening", "done"})
       => SumOver(Procs, acquired) = SumOver(Procs, released)

\* C19 witness: a submission whose read-back failed after its commit and a
\* call of DatabaseConnection.transaction whose callback threw have both
\* ended, each having released its connection.
C19_Witness ==
  \E p, q \in Procs :
    /\ pc[p] = "done" /\ committed[p] /\ outcome[p] = "thrown"
    /\ acquired[p] = 1 /\ released[p] = 1
    /\ pc[q] = "done" /\ route[q] = UnitCall /\ error[q] = CallbackError
    /\ acquired[q] = 1 /\ released[q] = 1

\* C20: GET /api/reports/summary is answered 200 without any credential and
\* authenticateUser is never consulted for it, while every request under
\* /api/accounts or /api/transactions passes through authenticateUser before
\* anything else runs for it.
C20_ReportIsPublic ==
  \A p \in Procs :
    /\ route[p] = "reports"
         => /\ "gate" \notin visited[p] /\ user[p] = NoUser
            /\ (pc[p] = "done" /\ error[p] = NoError) => httpStatus[p] = 200
    /\ route[p] \in {"transactions", "balance"}
         => /\ visited[p] # {} => "gate" \in visited[p]
            /\ pc[p] = "done" => "gate" \in visited[p]
            /\ visited[p] \cap BehindGate # {} => user[p] \in Users

\* C20 witness: a report request that carried no X-Secret-Key header has been
\* answered 200.
C20_Witness ==
  \E p \in Procs :
    /\ route[p] = "reports" /\ secretKey[p] = 0
    /\ pc[p] = "done" /\ httpStatus[p] = 200
    /\ visited[p] = {"query"}

\* The completed rows of `rows` that name account a as source or destination.
CompletedNaming(rows, a) ==
  { t \in rows : /\ t.status = "completed"
                 /\ a \in {t.source_account_id, t.destination_account_id} }

C22_FailureHistogram ==
  [][\A p \in Procs :
       (pc[p] = "report_failed" /\ pc'[p] = "done" /\ httpStatus'[p] = 200) =>
         LET h == report'[p].failed_transactions
             failed == { t \in ledger : t.status = "failed" }
         IN /\ DOMAIN h = { t.failure_reason : t \in failed }
            /\ \A r \in DOMAIN h :
                 h[r] = Cardinality({ t \in failed : t.failure_reason = r })
            /\ SumOver(DOMAIN h, h) = Cardinality(failed)]_vars

\* C22 witness: a report counts two failed rows under one reason, from a
\* ledger of two rows.
C22_Witness ==
  \E p \in Procs :
    /\ pc[p] = "done" /\ route[p] = "reports" /\ httpStatus[p] = 200
    /\ InsufficientFunds \in DOMAIN report[p].failed_transactions
    /\ report[p].failed_transactions[InsufficientFunds] = 2

\* The requests that read the store without a transaction, by position.
ReadPcs == {"balance_query", "report_accounts", "report_failed"}

\* Request q has returned the balance of account a, and no row has been
\* committed since it read it.
FreshRead(q, a) ==
  /\ pc[q] = "done" /\ route[q] = "balance" /\ httpStatus[q] = 200
  /\ paramsId[q] = a
  /\ readAt[q] = Cardinality(ledger)

\* C23: a balance query and either query of the summary report change no
\* balance and no ledger row; a balance query returns the committed balance
\* of its account, so it returns what an earlier balance query of the same
\* account returned when nothing was committed between the two.
C23_ReadsChangeNothing ==
  [][\A p \in Procs :
       /\ (pc[p] \in ReadPcs /\ pc'[p] # pc[p]) =>
            balance' = balance /\ ledger' = ledger
       /\ (pc[p] = "balance_query" /\ httpStatus'[p] = 200) =>
            /\ result'[p] = balance[paramsId[p]]
            /\ \A q \in Procs \ {p} :
                 FreshRead(q, paramsId[p]) => result'[p] = result[q]]_vars

\* C23 witness: after a committed change of an account's balance two
\* requests have read that balance, with no commit between them, and got the
\* same value.
C23_Witness ==
  \E p, q \in Procs, a \in Accounts :
    /\ p # q
    /\ FreshRead(p, a) /\ FreshRead(q, a)
    /\ result[p] = result[q]
    /\ result[p] # initial[a]

\* C24: the ledger is append-only: a row that is committed stays in the
\* ledger, unchanged, through every later step (submission, query, error path).
C24_LedgerAppendOnly == [][ledger \subseteq ledger']_vars

\* C24 witness: a second submission committed its row beside the row of the
\* first, and both requests were answered.
C24_Witness ==
  /\ Cardinality(ledger) = 2
  /\ \A p \in Procs : pc[p] = "done" /\ route[p] = "transactions"

\* C25: a committed row has a failure_reason if and only if its status is
\* failed; a completed row has none.
C25_ReasonIffFailed ==
  \A r \in ledger : (r.failure_reason # NoReason) <=> (r.status = "failed")

\* C25 witness: the ledger holds a failed row with its reason beside a
\* completed row without one.
C25_Witness ==
  /\ \E r \in ledger : r.status = "failed" /\ r.failure_reason = InsufficientFunds
  /\ \E r \in ledger : r.status = "completed" /\ r.failure_reason = NoReason

\* The status codes of a rejected request.
RejectedCodes == {400, 401, 403, 404}

\* C26: balances are changed only by the commits of the engine, each by
\* adding or subtracting the submitted amount on the submission's own source
\* or destination account; a request answered 401, 400, 403 or 404, and a
\* submission recorded as failed, leave every balance unchanged. (A request
\* whose COMMIT was executed and its reply lost is left aside: no caller can
\* tell it from a COMMIT that failed.)
C26_OnlyNamedAccountsChange ==
  /\ \A a \in Accounts :
       balance[a] = initial[a] + SumOver(Procs, [p \in Procs |-> applied[p][a]])
  /\ \A p \in Procs :
       /\ \A a \in Accounts :
            applied[p][a] # 0 =>
              /\ "engine" \in visited[p]
              /\ a \in {data[p].source_account_id, data[p].destination_account_id}
              /\ applied[p][a] \in {data[p].amount, 0 - data[p].amount}
       /\ (pc[p] = "done" /\ httpStatus[p] \in RejectedCodes /\ error[p] # ConnectionLost)
            => applied[p] = NoWrites
       /\ (\E r \in RowsOf(p) : r.status = "failed") => applied[p] = NoWrites

\* C27: whenever submitTransaction has raised an error to its caller, nothing
\* of that submission is committed: no balance change and no ledger row, also
\* when the step that failed is the read-back after the commit. (A COMMIT that
\* was executed and whose reply was lost is left aside.)
C27_ErrorMeansNothingCommitted ==
  \A p \in Procs :
    (outcome[p] = "thrown" /\ error[p] # ConnectionLost) =>
      /\ ~committed[p]
      /\ applied[p] = NoWrites
      /\ RowsOf(p) = {}

\* C28: a transfer of a > 0 from an account to itself leaves every balance
\* unchanged; it is recorded as one completed row naming the account on both
\* sides when a <= the balance its check read, and as one failed row
\* "Insufficient funds" when a is greater.
C28_SelfTransfer ==
  \A p \in Procs :
    ( /\ Finished(p)
      /\ data[p].type = "transfer"
      /\ data[p].amount > 0
      /\ data[p].source_account_id \in Accounts
      /\ data[p].destination_account_id = data[p].source_account_id )
    => /\ applied[p] = NoWrites
       /\ RowsOf(p) = {RowFor(p, IF data[p].amount <= seen[p] THEN "completed" ELSE "failed",
                                 IF data[p].amount <= seen[p] THEN NoReason ELSE InsufficientFunds)}

\* The failure reasons of the engine's missing-reference branches.
MissingReferenceReasons == {DestinationRequired, SourceRequired, BothRequired}

\* C29: no submission that came through POST /api/transactions takes a
\* missing-reference branch of the engine: the only failure reasons it is
\* given, and the only ones of the rows it commits, are "Negative or zero
\* amount not allowed" and "Insufficient funds".
C29_MissingReferenceUnreachable ==
  /\ \A p \in Procs :
       (route[p] = "transactions" /\ "engine" \in visited[p]) =>
         /\ schemas_transaction(body[p])
         /\ MissingReference(data[p]) = NoReason
         /\ failureReason[p] \in {NoReason, NegativeOrZero, InsufficientFunds}
  /\ \A r \in ledger : r.failure_reason \notin MissingReferenceReasons

\* C29 witness: a request was answered 201 with a failed transaction whose
\* reason is "Insufficient funds", and its row is committed.
C29_Witness ==
  \E p \in Procs :
    /\ route[p] = "transactions" /\ pc[p] = "done" /\ httpStatus[p] = 201
    /\ RowsOf(p) = {RowFor(p, "failed", InsufficientFunds)}

\* C30: the amount stored in a completed row is the change the submission
\* made to the balance of its source (as a decrease) and of its destination
\* (as an increase), also when the amount submitted has more than two decimal
\* places.
C30_StoredAmountIsBalanceChange ==
  \A p \in Procs :
    (pc[p] = "done" /\ status[p] = "completed") =>
      \A r \in RowsOf(p) : applied[p] = Effect(r)

====
